---- MODULE Spec2Model ----
(***************************************************************************)
(* Model of training/hand/volumetric_rendering/ray_sampler.py:             *)
(* RaySampler.forward and AvatarGenRaySampler.forward, the two batched     *)
(* camera ray generators, with the module-level dry-run camera.            *)
(*                                                                         *)
(* Numbers are exact rationals <<n, d>> in lowest terms with d > 0.  The   *)
(* value <<0, 0>> stands for a non-finite float (NaN or +-inf), which any  *)
(* arithmetic with it propagates.  The model's intrinsics have either      *)
(* fx # 0 and fy # 0 or every element zero; on these the only non-finite   *)
(* results of the code are NaN, so one marker is exact.  A unit vector is  *)
(* kept as [vec, den2], read vec / sqrt(den2), so that no square root is   *)
(* ever taken.  Tensors are functions over 0-based index ranges.           *)
(***************************************************************************)
EXTENDS Integers, Sequences, FiniteSets, TLC

\* Largest batch size and largest resolution a caller passes.
MaxN == 2
MaxR == 2

---------------------------------------------------------------------------
\* Exact rational arithmetic with a non-finite marker.

NaN == <<0, 0>>

Abs(x) == IF x < 0 THEN -x ELSE x

RECURSIVE Gcd(_, _)
Gcd(a, b) == IF b = 0 THEN a ELSE Gcd(b, a % b)

Rat(n, d) ==
  IF d = 0 THEN NaN
  ELSE LET g == Gcd(Abs(n), Abs(d))
           s == IF d < 0 THEN -1 ELSE 1
       IN  <<(s * n) \div g, (s * d) \div g>>

IsNaN(q) == q[2] = 0

Zero == <<0, 1>>
One == <<1, 1>>

Neg(a) == IF IsNaN(a) THEN NaN ELSE <<-a[1], a[2]>>

Add(a, b) ==
  IF IsNaN(a) \/ IsNaN(b) THEN NaN
  ELSE IF a[1] = 0 THEN b
  ELSE IF b[1] = 0 THEN a
  ELSE LET g == Gcd(a[2], b[2])
       IN  Rat(a[1] * (b[2] \div g) + b[1] * (a[2] \div g), a[2] * (b[2] \div g))

Sub(a, b) == Add(a, Neg(b))

\* Both operands are in lowest terms, so cancelling crosswise leaves the product so.
Mul(a, b) ==
  IF IsNaN(a) \/ IsNaN(b) THEN NaN
  ELSE IF a[1] = 0 \/ b[1] = 0 THEN Zero
  ELSE LET g1 == Gcd(Abs(a[1]), b[2])
           g2 == Gcd(Abs(b[1]), a[2])
       IN  <<(a[1] \div g1) * (b[1] \div g2), (a[2] \div g2) * (b[2] \div g1)>>

\* Float division: a zero divisor gives a non-finite value.
Div(a, b) ==
  IF IsNaN(a) \/ IsNaN(b) \/ b[1] = 0 THEN NaN
  ELSE Mul(a, IF b[1] < 0 THEN <<-b[2], -b[1]>> ELSE <<b[2], b[1]>>)

---------------------------------------------------------------------------
\* Tensor primitives.

\* torch.arange(n, dtype=float32)
arange(n) == [k \in 0..(n - 1) |-> Rat(k, 1)]

\* torch.linspace(start, end, steps)
linspace(start, end, steps) ==
  [k \in 0..(steps - 1) |->
     IF steps = 1 THEN start
     ELSE Add(start, Mul(Rat(k, steps - 1), Sub(end, start)))]

\* torch.meshgrid(a, b, indexing='ij'): the pair of grids g0[p][q] = a[p], g1[p][q] = b[q]
meshgrid(a, b) ==
  <<[p \in DOMAIN a |-> [q \in DOMAIN b |-> a[p]]],
    [p \in DOMAIN a |-> [q \in DOMAIN b |-> b[q]]]>>

\* torch.stack of the two grids on a new leading axis: shape (2, R, R)
stack2(pair) == [c \in 0..1 |-> pair[c + 1]]

\* Mutant of flip0: the flip is left out.
flip0_missing(t) == t

\* t.flip(0) on a tensor whose leading axis has length 2
flip0(t) == [c \in 0..1 |-> t[1 - c]]

\* t.reshape(2, -1) of a (2, R, R) tensor: row-major flattening of the last two axes
reshape2(t, R) == [c \in 0..1 |-> [m \in 0..(R * R - 1) |-> t[c][m \div R][m % R]]]

\* t.transpose(1, 0) of a (2, M) tensor: shape (M, 2)
transpose10(t, M) == [m \in 0..(M - 1) |-> [c \in 0..1 |-> t[c][m]]]

\* t.t() of a square matrix
t_(g) == [p \in DOMAIN g |-> [q \in DOMAIN g |-> g[q][p]]]

\* The 3-vector with the given components
Vec3(x, y, z) == (0 :> x) @@ (1 :> y) @@ (2 :> z)

\* Sum of squares of a 3-vector
NormSq(v) == Add(Add(Mul(v[0], v[0]), Mul(v[1], v[1])), Mul(v[2], v[2]))

\* The size of a broadcast dimension; 0 when the sizes cannot be broadcast.
BroadcastDim(a, b) == IF a = b THEN a ELSE IF a = 1 THEN b ELSE IF b = 1 THEN a ELSE 0

\* The index into a dimension of size n that broadcasting reads for index k.
Bx(n, k) == IF n = 1 THEN 0 ELSE k

\* A tensor from its rows written as tuples.
Mat(rows) == [i \in 0..(Len(rows) - 1) |-> [j \in 0..(Len(rows[i + 1]) - 1) |-> rows[i + 1][j + 1]]]

\* A batch (leading axis) from a tuple of tensors.
Batch(ts) == [n \in 0..(Len(ts) - 1) |-> ts[n + 1]]

\* t.shape[0]
Shape0(t) == Cardinality(DOMAIN t)

\* tensor.repeat(n, 1, 1) of one matrix: a fresh batch of n copies
repeat(mat, n) == [k \in 0..(n - 1) |-> mat]

\* torch.bmm(a, b) for batches of equal size of 4x4 matrices
bmm44(a, b) ==
  [n \in DOMAIN a |-> [r \in 0..3 |-> [c \in 0..3 |->
     Add(Add(Mul(a[n][r][0], b[n][0][c]), Mul(a[n][r][1], b[n][1][c])),
         Add(Mul(a[n][r][2], b[n][2][c]), Mul(a[n][r][3], b[n][3][c])))]]]

---------------------------------------------------------------------------
\* Module-level tensors (initial values).

intrinsics_dry_run_0 ==
  Mat(<< <<Rat(3125, 100), Zero, Rat(1, 2)>>,
         <<Zero, Rat(3125, 100), Rat(1, 2)>>,
         <<Zero, Zero, One>> >>)

camera2world_dry_run_0 ==
  Mat(<< <<Rat(71037, 10000000), Rat(-86363, 100000), Rat(50408, 100000), Rat(-46887, 10000)>>,
         <<Rat(-84197, 100000), Rat(-27712, 100000), Rat(-46292, 100000), Rat(36448, 10000)>>,
         <<Rat(53948, 100000), Rat(-42113, 100000), Rat(-72911, 100000), Rat(56236, 10000)>>,
         <<Zero, Zero, Zero, One>> >>)

\* The instance fields __init__ sets.
InitFields ==
  [ray_origins_h |-> "None", ray_directions |-> "None", depths |-> "None",
   image_coords |-> "None", rendering_options |-> "None"]

---------------------------------------------------------------------------
\* The arguments callers pass.

\* cam2world transforms: the identity, a rigid rotation about Z with a
\* translation, and a non-rigid (singular) transform.
CamIdentity ==
  Mat(<< <<One, Zero, Zero, Zero>>, <<Zero, One, Zero, Zero>>,
         <<Zero, Zero, One, Zero>>, <<Zero, Zero, Zero, One>> >>)

CamRotated ==
  Mat(<< <<Rat(3, 5), Rat(-4, 5), Zero, One>>, <<Rat(4, 5), Rat(3, 5), Zero, Rat(-2, 1)>>,
         <<Zero, Zero, One, Rat(3, 1)>>, <<Zero, Zero, Zero, One>> >>)

CamFlat ==
  Mat(<< <<One, Zero, Zero, Zero>>, <<Zero, One, Zero, Zero>>,
         <<Zero, Zero, Zero, One>>, <<Zero, Zero, Zero, One>> >>)

Cams == <<CamIdentity, CamRotated, CamFlat>>

\* intrinsics [[fx, sk, cx], [0, fy, cy], [0, 0, 1]], and the all-zero matrix.
Intr(fx, sk, cx, fy, cy) ==
  Mat(<< <<fx, sk, cx>>, <<Zero, fy, cy>>, <<Zero, Zero, One>> >>)

IntrZero == Mat(<< <<Zero, Zero, Zero>>, <<Zero, Zero, Zero>>, <<Zero, Zero, Zero>> >>)

IntrPixel == Intr(Rat(2, 1), Zero, One, Rat(2, 1), One)

IntrCentred == Intr(Rat(2, 1), Zero, Rat(1, 2), Rat(2, 1), Rat(1, 2))

IntrSkewed == Intr(Rat(2, 1), One, Rat(1, 2), Rat(3, 1), Rat(1, 4))

IntrUnit == Intr(One, Zero, Rat(1, 2), One, Rat(1, 2))

Intrs == <<IntrZero, IntrPixel, IntrCentred, IntrSkewed, IntrUnit>>

\* Batches of 1..MaxN elements of the list L: n copies of one element, or n
\* consecutive elements of L taken cyclically.
Batches(L) ==
  {[k \in 0..(n - 1) |-> L[s]] : s \in 1..Len(L), n \in 1..MaxN}
    \cup {[k \in 0..(n - 1) |-> L[((s - 1 + k) % Len(L)) + 1]] : s \in 1..Len(L), n \in 1..MaxN}

\* A rigid transform: orthonormal rotation block and last row [0, 0, 0, 1].
IsRigid(c) ==
  /\ \A p \in 0..2 : \A q \in 0..2 :
       Add(Add(Mul(c[0][p], c[0][q]), Mul(c[1][p], c[1][q])), Mul(c[2][p], c[2][q]))
         = (IF p = q THEN One ELSE Zero)
  /\ c[3] = CamIdentity[3]

---------------------------------------------------------------------------
\* State.

VARIABLES
  pc,                    \* "idle", "ready" (arguments built), "returned"
  sampler,               \* the class whose forward ran last
  cam2world_matrix,      \* the caller's (N, 4, 4) tensor
  intrinsics,            \* the caller's (N, 3, 3) tensor
  resolution,            \* the caller's int
  ret,                   \* what forward returned, or the error it raised
  locals,                \* forward's intermediate tensors at return
  intrinsics_dry_run,    \* module-level tensor
  camera2world_dry_run,  \* module-level tensor
  fields,                \* instance fields of the two modules
  diagnostic_used        \* history: some earlier call took the dry-run branch

vars ==
  <<pc, sampler, cam2world_matrix, intrinsics, resolution, ret, locals,
    intrinsics_dry_run, camera2world_dry_run, fields, diagnostic_used>>

---------------------------------------------------------------------------
\* RaySampler.forward

\* What a raised exception leaves: no rays.
Raised(kind) == [status |-> kind]
NoLocals == [none |-> TRUE]

\* Mutant of PixelGrid: pixel corners, without the half-pixel offset.
PixelGrid_corner(R) ==
  LET ar == arange(R)
      st == stack2(meshgrid(ar, ar))
      sc == [c \in 0..1 |-> [p \in 0..(R - 1) |-> [q \in 0..(R - 1) |->
               Mul(st[c][p][q], Div(One, Rat(R, 1)))]]]
  IN  transpose10(reshape2(flip0(sc), R), R * R)

\* The normalised pixel-centre grid, shape (M, 2): meshgrid, stack, scale, flip, reshape, transpose.
PixelGrid(R) ==
  LET ar == arange(R)
      st == stack2(meshgrid(ar, ar))
      sc == [c \in 0..1 |-> [p \in 0..(R - 1) |-> [q \in 0..(R - 1) |->
               Add(Mul(st[c][p][q], Div(One, Rat(R, 1))), Div(Rat(1, 2), Rat(R, 1)))]]]
  IN  transpose10(reshape2(flip0(sc), R), R * R)

\* Mutant of XLift: the inverse without the skew cross terms.
XLift_noskew(x_cam, y_cam, fx, fy, cx, cy, sk, z_cam) == Mul(Div(Sub(x_cam, cx), fx), z_cam)

\* x_lift and y_lift of one camera and one grid point.
XLift(x_cam, y_cam, fx, fy, cx, cy, sk, z_cam) ==
  Mul(Div(Sub(Add(Sub(x_cam, cx), Div(Mul(cy, sk), fy)), Div(Mul(sk, y_cam), fy)), fx), z_cam)

YLift(y_cam, fy, cy, z_cam) == Mul(Div(Sub(y_cam, cy), fy), z_cam)

\* Mutant of normalize: the vector is returned without the division.
normalize_skipped(v) == [vec |-> v, den2 |-> One]

\* torch.nn.functional.normalize(v, dim=2) of one 3-vector: v / max(||v||, 1e-12).
\* Every positive rational of the model exceeds 1e-24, so the clamp acts
\* exactly when v is the zero vector, which it returns unchanged (0 / 1e-12).
normalize(v) ==
  LET n2 == NormSq(v)
  IN  IF IsNaN(n2) THEN [vec |-> Vec3(NaN, NaN, NaN), den2 |-> NaN]
      ELSE IF n2 = Zero THEN [vec |-> v, den2 |-> One]
      ELSE [vec |-> v, den2 |-> n2]

RaySamplerForward(c2w, K, R) ==
  LET N == Shape0(c2w)
      Ni == Shape0(K)
      M == R * R
      cam_locs_world == [n \in 0..(N - 1) |-> [r \in 0..2 |-> c2w[n][r][3]]]
      fx == [n \in 0..(Ni - 1) |-> K[n][0][0]]
      fy == [n \in 0..(Ni - 1) |-> K[n][1][1]]
      cx == [n \in 0..(Ni - 1) |-> K[n][0][2]]
      cy == [n \in 0..(Ni - 1) |-> K[n][1][2]]
      sk == [n \in 0..(Ni - 1) |-> K[n][0][1]]
      grid == PixelGrid(R)
      uv == [n \in 0..(N - 1) |-> grid]
      x_cam == [n \in 0..(N - 1) |-> [m \in 0..(M - 1) |-> uv[n][m][0]]]
      y_cam == [n \in 0..(N - 1) |-> [m \in 0..(M - 1) |-> uv[n][m][1]]]
      z_cam == [n \in 0..(N - 1) |-> [m \in 0..(M - 1) |-> One]]
      \* (N, M) against (Ni, 1): the lifted coordinates have B rows
      B == BroadcastDim(N, Ni)
      x_lift == [n \in 0..(B - 1) |-> [m \in 0..(M - 1) |->
                   XLift(x_cam[Bx(N, n)][m], y_cam[Bx(N, n)][m], fx[Bx(Ni, n)], fy[Bx(Ni, n)],
                         cx[Bx(Ni, n)], cy[Bx(Ni, n)], sk[Bx(Ni, n)], z_cam[Bx(N, n)][m])]]
      y_lift == [n \in 0..(B - 1) |-> [m \in 0..(M - 1) |->
                   YLift(y_cam[Bx(N, n)][m], fy[Bx(Ni, n)], cy[Bx(Ni, n)], z_cam[Bx(N, n)][m])]]
      cam_rel_points == [n \in 0..(N - 1) |-> [m \in 0..(M - 1) |->
                           (0 :> x_lift[n][m]) @@ (1 :> y_lift[n][m])
                             @@ (2 :> z_cam[n][m]) @@ (3 :> One)]]
      world_rel_points == [n \in 0..(N - 1) |-> [m \in 0..(M - 1) |->
                             LET p == cam_rel_points[n][m]
                             IN  [r \in 0..2 |->
                                    Add(Add(Mul(c2w[n][r][0], p[0]), Mul(c2w[n][r][1], p[1])),
                                        Add(Mul(c2w[n][r][2], p[2]), Mul(c2w[n][r][3], p[3])))]]]
      ray_dirs == [n \in 0..(N - 1) |-> [m \in 0..(M - 1) |->
                     normalize(Vec3(Sub(world_rel_points[n][m][0], cam_locs_world[n][0]),
                                    Sub(world_rel_points[n][m][1], cam_locs_world[n][1]),
                                    Sub(world_rel_points[n][m][2], cam_locs_world[n][2])))]]
      ray_origins == [n \in 0..(N - 1) |-> [m \in 0..(M - 1) |-> cam_locs_world[n]]]
  IN  IF B = 0
        THEN \* line 60: the operands of x_cam - cx cannot be broadcast
             [ret |-> Raised("RuntimeError"), locals |-> NoLocals]
      ELSE IF B # N
        THEN \* line 63: torch.stack of tensors of unequal size
             [ret |-> Raised("RuntimeError"), locals |-> NoLocals]
      ELSE [ret |-> [status |-> "ok", ray_origins |-> ray_origins, ray_dirs |-> ray_dirs],
            locals |-> [x_cam |-> x_cam, y_cam |-> y_cam, x_lift |-> x_lift, y_lift |-> y_lift]]

---------------------------------------------------------------------------
\* AvatarGenRaySampler.forward

\* torch.all(intrinsics == 0).item()
AllZero(K) == \A n \in DOMAIN K : \A r \in 0..2 : \A c \in 0..2 : K[n][r][c] = Zero

\* Mutant of DryRunSubstitute: the module's tensors are used without repeat.
DryRunSubstitute_norepeat(c2w, K, dryK, dryC) ==
  IF AllZero(K)
    THEN [intrinsics |-> repeat(dryK, 1), cam2world_matrix |-> repeat(dryC, 1)]
  ELSE [intrinsics |-> K, cam2world_matrix |-> c2w]

\* Mutant of DryRunSubstitute: only the intrinsics are replaced.
DryRunSubstitute_keepcam(c2w, K, dryK, dryC) ==
  IF AllZero(K)
    THEN [intrinsics |-> repeat(dryK, Shape0(K)), cam2world_matrix |-> c2w]
  ELSE [intrinsics |-> K, cam2world_matrix |-> c2w]

\* The dry-run substitution: both arguments replaced by copies of the module's tensors.
DryRunSubstitute(c2w, K, dryK, dryC) ==
  IF AllZero(K)
    THEN [intrinsics |-> repeat(dryK, Shape0(K)), cam2world_matrix |-> repeat(dryC, Shape0(K))]
  ELSE [intrinsics |-> K, cam2world_matrix |-> c2w]

\* M = torch.eye(4) with M[1, 1] and M[2, 2] negated
AxisFlip ==
  [r \in 0..3 |-> [c \in 0..3 |->
     IF r # c THEN Zero ELSE IF r \in {1, 2} THEN Mul(One, Rat(-1, 1)) ELSE One]]

\* Mutant of ConvertAxes: M multiplies from the left.
ConvertAxes_left(c2w) == bmm44(repeat(AxisFlip, Shape0(c2w)), c2w)

\* cam2world_matrix = torch.bmm(cam2world_matrix, M repeated over the batch)
ConvertAxes(c2w) == bmm44(c2w, repeat(AxisFlip, Shape0(c2w)))

\* The pixel-centre grids i and j, shape (R, R), after the transposition.
PixelCentres(R) ==
  LET ls == linspace(Rat(1, 2), Sub(Rat(R, 1), Rat(1, 2)), R)
      g == meshgrid(ls, ls)
  IN  [i |-> t_(g[1]), j |-> t_(g[2])]

\* Mutant of CameraDir: the Y component is not negated.
CameraDir_ydown(i, j, focal, center) ==
  Vec3(Div(Sub(i, center[0]), focal[0]), Div(Sub(j, center[1]), focal[1]), Neg(One))

\* One camera-space direction before normalisation.
CameraDir(i, j, focal, center) ==
  Vec3(Div(Sub(i, center[0]), focal[0]), Neg(Div(Sub(j, center[1]), focal[1])), Neg(One))

\* dirs / torch.norm(dirs), then rotated by rot (rows 0..2, columns 0..2 of a transform).
RotateUnit(d, rot) ==
  LET n2 == NormSq(d)
  IN  IF IsNaN(n2) THEN [vec |-> Vec3(NaN, NaN, NaN), den2 |-> NaN]
      ELSE [vec |-> [r \in 0..2 |->
                       Add(Add(Mul(d[0], rot[r][0]), Mul(d[1], rot[r][1])), Mul(d[2], rot[r][2]))],
            den2 |-> n2]

AvatarGenRaySamplerForward(c2w_arg, K_arg, R, dryK, dryC) ==
  LET sub == DryRunSubstitute(c2w_arg, K_arg, dryK, dryC)
      K == sub.intrinsics
      c2w == ConvertAxes(sub.cam2world_matrix)
      Nc == Shape0(c2w)
      Ni == Shape0(K)
      focal == [n \in 0..(Ni - 1) |-> [k \in 0..1 |-> Mul(K[n][k][k], Rat(R, 1))]]
      center == [n \in 0..(Ni - 1) |-> [k \in 0..1 |-> Mul(K[n][k][2], Rat(R, 1))]]
      grid == PixelCentres(R)
      dirs == [n \in 0..(Ni - 1) |-> [a \in 0..(R - 1) |-> [b \in 0..(R - 1) |->
                 CameraDir(grid.i[a][b], grid.j[a][b], focal[n], center[n])]]]
      \* (Ni, R, R, 1, 3) against (Nc, 1, 1, 3, 3)
      B == BroadcastDim(Ni, Nc)
      rays_d == [n \in 0..(B - 1) |-> [a \in 0..(R - 1) |-> [b \in 0..(R - 1) |->
                   RotateUnit(dirs[Bx(Ni, n)][a][b], c2w[Bx(Nc, n)])]]]
      rays_o == [n \in 0..(B - 1) |-> [a \in 0..(R - 1) |-> [b \in 0..(R - 1) |->
                   [r \in 0..2 |-> c2w[Bx(Nc, n)][r][3]]]]]
  IN  IF B = 0
        THEN \* line 108: the operands of the product cannot be broadcast
             [ret |-> Raised("RuntimeError"), locals |-> NoLocals]
      ELSE [ret |-> [status |-> "ok",
                     ray_origins |-> [n \in 0..(B - 1) |-> [m \in 0..(R * R - 1) |->
                                        rays_o[n][m \div R][m % R]]],
                     ray_dirs |-> [n \in 0..(B - 1) |-> [m \in 0..(R * R - 1) |->
                                     rays_d[n][m \div R][m % R]]]],
            locals |-> [i |-> [m \in 0..(R * R - 1) |-> grid.i[m \div R][m % R]],
                        j |-> [m \in 0..(R * R - 1) |-> grid.j[m \div R][m % R]],
                        cam2world_matrix |-> c2w]]

---------------------------------------------------------------------------
\* Actions.

Init ==
  /\ pc = "idle"
  /\ sampler = "none"
  /\ cam2world_matrix = <<>>
  /\ intrinsics = <<>>
  /\ resolution = 0
  /\ ret = [status |-> "none"]
  /\ locals = NoLocals
  /\ intrinsics_dry_run = intrinsics_dry_run_0
  /\ camera2world_dry_run = camera2world_dry_run_0
  /\ fields = [RaySampler |-> InitFields, AvatarGenRaySampler |-> InitFields]
  /\ diagnostic_used = FALSE

\* The caller builds the arguments of its next call.
Prepare ==
  /\ pc = "idle"
  /\ \E c \in Batches(Cams), k \in Batches(Intrs), r \in 1..MaxR :
       /\ cam2world_matrix' = c
       /\ intrinsics' = k
       /\ resolution' = r
  /\ pc' = "ready"
  /\ sampler' = "none"
  /\ ret' = [status |-> "none"]
  /\ locals' = NoLocals
  /\ UNCHANGED <<intrinsics_dry_run, camera2world_dry_run, fields, diagnostic_used>>

RaySampler_forward ==
  /\ pc = "ready"
  /\ LET f == RaySamplerForward(cam2world_matrix, intrinsics, resolution)
     IN  /\ ret' = f.ret
         /\ locals' = f.locals
  /\ pc' = "returned"
  /\ sampler' = "RaySampler"
  /\ UNCHANGED <<cam2world_matrix, intrinsics, resolution,
                 intrinsics_dry_run, camera2world_dry_run, fields, diagnostic_used>>

\* Mutant of AvatarGenRaySampler_forward: the dry-run branch aliases the
\* module's camera and the axis conversion is done in place.
AvatarGenRaySampler_forward_inplace ==
  /\ pc = "ready"
  /\ LET f == AvatarGenRaySamplerForward(cam2world_matrix, intrinsics, resolution,
                                         intrinsics_dry_run, camera2world_dry_run)
     IN  /\ ret' = f.ret
         /\ locals' = f.locals
  /\ pc' = "returned"
  /\ sampler' = "AvatarGenRaySampler"
  /\ diagnostic_used' = (diagnostic_used \/ AllZero(intrinsics))
  /\ camera2world_dry_run' =
       IF AllZero(intrinsics) THEN ConvertAxes(repeat(camera2world_dry_run, 1))[0]
       ELSE camera2world_dry_run
  /\ UNCHANGED <<cam2world_matrix, intrinsics, resolution, intrinsics_dry_run, fields>>

AvatarGenRaySampler_forward ==
  /\ pc = "ready"
  /\ LET f == AvatarGenRaySamplerForward(cam2world_matrix, intrinsics, resolution,
                                         intrinsics_dry_run, camera2world_dry_run)
     IN  /\ ret' = f.ret
         /\ locals' = f.locals
  /\ pc' = "returned"
  /\ sampler' = "AvatarGenRaySampler"
  /\ diagnostic_used' = (diagnostic_used \/ AllZero(intrinsics))
  /\ UNCHANGED <<cam2world_matrix, intrinsics, resolution,
                 intrinsics_dry_run, camera2world_dry_run, fields>>

\* The caller drops the arguments and the result of a finished call.
Release ==
  /\ pc = "returned"
  /\ pc' = "idle"
  /\ sampler' = "none"
  /\ cam2world_matrix' = <<>>
  /\ intrinsics' = <<>>
  /\ resolution' = 0
  /\ ret' = [status |-> "none"]
  /\ locals' = NoLocals
  /\ UNCHANGED <<intrinsics_dry_run, camera2world_dry_run, fields, diagnostic_used>>

Next == Prepare \/ RaySampler_forward \/ AvatarGenRaySampler_forward \/ Release

Spec == Init /\ [][Next]_vars
---------------------------------------------------------------------------
\* Properties.

Returned == pc = "returned"
ReturnedOk == pc = "returned" /\ ret.status = "ok"
Matched == Shape0(cam2world_matrix) = Shape0(intrinsics)
Pixels == 0..(resolution * resolution - 1)
AllRigid == \A n \in DOMAIN cam2world_matrix : IsRigid(cam2world_matrix[n])
FocalNonZero == \A n \in DOMAIN intrinsics : intrinsics[n][0][0] # Zero /\ intrinsics[n][1][1] # Zero

\* The square of the Euclidean norm of a returned direction vec / sqrt(den2) is 1.
UnitNorm(d) == ~IsNaN(d.den2) /\ d.den2 # Zero /\ NormSq(d.vec) = d.den2

\* C1: for both samplers, on valid inputs (equal batch sizes, rigid cam2world,
\* fx and fy non-zero) the call returns and every returned direction has
\* Euclidean norm 1.
C1_UnitDirections ==
  (Returned /\ Matched /\ AllRigid /\ FocalNonZero) =>
    /\ ret.status = "ok"
    /\ \A n \in DOMAIN ret.ray_dirs : \A m \in Pixels : UnitNorm(ret.ray_dirs[n][m])

\* A call of AvatarGenRaySampler on two rigid cameras, one rotated, one with
\* skewed intrinsics, whose directions have norm 1 and are not axis-aligned.
C1_Witness ==
  /\ ReturnedOk /\ sampler = "AvatarGenRaySampler" /\ resolution = 2
  /\ cam2world_matrix = Batch(<<CamIdentity, CamRotated>>)
  /\ intrinsics = Batch(<<IntrCentred, IntrSkewed>>)
  /\ \A n \in 0..1 : \A m \in Pixels : UnitNorm(ret.ray_dirs[n][m])
  /\ ret.ray_dirs[1][0].den2 # One

\* C2: for both samplers, a call with N cameras (both batches of size N) and
\* resolution R returns origins and directions of shape (N, R*R, 3), indexed
\* by the same camera and flat pixel indices.
ShapeIs(t, N, M) ==
  /\ DOMAIN t = 0..(N - 1)
  /\ \A n \in 0..(N - 1) : DOMAIN t[n] = 0..(M - 1)

EffectiveCam(n) ==
  IF AllZero(intrinsics) THEN camera2world_dry_run_0 ELSE cam2world_matrix[n]

\* C3: every origin of camera n is the translation column of that camera's
\* transform; in AvatarGenRaySampler it is that of the axis-converted
\* transform, which differs from the unconverted one only in that columns 1
\* and 2 of the rotation block are negated.
C3_Origins ==
  (ReturnedOk /\ Matched) =>
    /\ sampler = "RaySampler" =>
         \A n \in DOMAIN ret.ray_origins : \A m \in Pixels : \A r \in 0..2 :
           ret.ray_origins[n][m][r] = cam2world_matrix[n][r][3]
    /\ sampler = "AvatarGenRaySampler" =>
         \A n \in DOMAIN ret.ray_origins :
           LET conv == locals.cam2world_matrix[n]
               orig == EffectiveCam(n)
           IN  /\ \A m \in Pixels : \A r \in 0..2 :
                    /\ ret.ray_origins[n][m][r] = conv[r][3]
                    /\ ret.ray_origins[n][m][r] = orig[r][3]
               /\ conv[3] = orig[3]
               /\ \A r \in 0..2 :
                    /\ conv[r][0] = orig[r][0]
                    /\ conv[r][1] = Neg(orig[r][1])
                    /\ conv[r][2] = Neg(orig[r][2])

\* A call of AvatarGenRaySampler on the rotated camera, whose translation
\* has non-zero Y and Z and whose rotation block has a non-zero Y column.
C3_Witness ==
  /\ ReturnedOk /\ sampler = "AvatarGenRaySampler" /\ resolution = 2
  /\ cam2world_matrix = Batch(<<CamRotated>>) /\ intrinsics = Batch(<<IntrCentred>>)
  /\ \A m \in Pixels : ret.ray_origins[0][m] = Vec3(One, Rat(-2, 1), Rat(3, 1))
  /\ locals.cam2world_matrix[0][0][1] = Rat(4, 5)

\* The rays of the fixed diagnostic camera for n cameras at resolution R.
DiagnosticRays(n, R) ==
  AvatarGenRaySamplerForward(repeat(camera2world_dry_run_0, n), repeat(intrinsics_dry_run_0, n), R,
                             intrinsics_dry_run_0, camera2world_dry_run_0).ret

\* C4: AvatarGenRaySampler.forward with all-zero intrinsics of batch size N
\* does not fail and returns the rays of the fixed diagnostic camera repeated
\* N times, whatever cam2world was passed.
C4_DryRun ==
  (Returned /\ sampler = "AvatarGenRaySampler" /\ AllZero(intrinsics)) =>
    /\ ret.status = "ok"
    /\ ret = DiagnosticRays(Shape0(intrinsics), resolution)
    /\ \A n \in DOMAIN ret.ray_origins : \A m \in Pixels : \A r \in 0..2 :
         ret.ray_origins[n][m][r] = camera2world_dry_run_0[r][3]

\* A dry-run call whose cam2world batch has another size and another
\* translation than the diagnostic camera.
C4_Witness ==
  /\ ReturnedOk /\ sampler = "AvatarGenRaySampler" /\ AllZero(intrinsics)
  /\ Shape0(intrinsics) = 2 /\ resolution = 2
  /\ cam2world_matrix = Batch(<<CamRotated>>)
  /\ ret.ray_origins[1][3] = Vec3(Rat(-46887, 10000), Rat(36448, 10000), Rat(56236, 10000))

\* C5: when the batch sizes of cam2world and intrinsics differ, forward fails
\* and returns no rays.
C5_MismatchFails ==
  (Returned /\ ~Matched) => ret.status \notin {"ok", "none"}

\* What each forward returns for given arguments when the module's tensors
\* hold their initial values.
PureResult(which, c2w, K, R) ==
  IF which = "RaySampler" THEN RaySamplerForward(c2w, K, R).ret
  ELSE AvatarGenRaySamplerForward(c2w, K, R, intrinsics_dry_run_0, camera2world_dry_run_0).ret

Less(a, b) == a[1] * b[2] < b[1] * a[2]
LessEq(a, b) == a[1] * b[2] <= b[1] * a[2]
AbsQ(a) == <<Abs(a[1]), a[2]>>

\* RaySampler.forward returned for identity cameras with zero skew, equal
\* focal lengths and principal point (c, c).
SymmetricSetup(c) ==
  /\ ReturnedOk /\ sampler = "RaySampler" /\ Matched
  /\ \A n \in DOMAIN intrinsics :
       /\ cam2world_matrix[n] = CamIdentity
       /\ intrinsics[n][0][1] = Zero
       /\ intrinsics[n][0][0] = intrinsics[n][1][1]
       /\ intrinsics[n][0][0] # Zero
       /\ intrinsics[n][0][2] = c
       /\ intrinsics[n][1][2] = c

\* The offsets (x_lift, y_lift) of camera n are closed under negating either component.
OffsetsSymmetric(n) ==
  \A m \in Pixels :
    /\ \E k \in Pixels : /\ locals.x_lift[n][k] = Neg(locals.x_lift[n][m])
                         /\ locals.y_lift[n][k] = locals.y_lift[n][m]
    /\ \E k \in Pixels : /\ locals.x_lift[n][k] = locals.x_lift[n][m]
                         /\ locals.y_lift[n][k] = Neg(locals.y_lift[n][m])

\* The pixel nearest the image centre is lifted to within half a pixel over
\* the focal length of the forward axis.
CentreForward(n) ==
  LET mc == (resolution \div 2) * resolution + (resolution \div 2)
      half == Div(One, Mul(Rat(2 * resolution, 1), intrinsics[n][0][0]))
  IN  /\ LessEq(AbsQ(locals.x_lift[n][mc]), AbsQ(half))
      /\ LessEq(AbsQ(locals.y_lift[n][mc]), AbsQ(half))
      /\ ret.ray_dirs[n][mc].vec[2] = One

\* The four rays of the 2x2 case: origin (0, 0, 0), directions (+-1/8, +-1/8, 1)
\* before normalisation.
PencilOfFour ==
  /\ \A m \in 0..3 : ret.ray_origins[0][m] = Vec3(Zero, Zero, Zero)
  /\ ret.ray_dirs[0][0].vec = Vec3(Rat(-1, 8), Rat(-1, 8), One)
  /\ ret.ray_dirs[0][1].vec = Vec3(Rat(1, 8), Rat(-1, 8), One)
  /\ ret.ray_dirs[0][2].vec = Vec3(Rat(-1, 8), Rat(1, 8), One)
  /\ ret.ray_dirs[0][3].vec = Vec3(Rat(1, 8), Rat(1, 8), One)

\* C7 as stated: with principal point cx = cy = 0.5 * R the rays are
\* symmetric about (0, 0, 1), and for N = 1, R = 2 and intrinsics
\* [[2,0,1],[0,2,1],[0,0,1]] they are (+-1/8, +-1/8, 1).
C7_AsStated ==
  /\ SymmetricSetup(Rat(resolution, 2)) =>
       \A n \in DOMAIN intrinsics : OffsetsSymmetric(n) /\ CentreForward(n)
  /\ (SymmetricSetup(Rat(resolution, 2)) /\ resolution = 2
        /\ intrinsics = Batch(<<IntrPixel>>)) => PencilOfFour

\* C7 amended: with principal point cx = cy = 0.5, in the grid's normalised
\* units, the rays are symmetric about (0, 0, 1), and for N = 1, R = 2 and
\* intrinsics [[2,0,0.5],[0,2,0.5],[0,0,1]] they are (+-1/8, +-1/8, 1).
C7_Symmetric ==
  /\ SymmetricSetup(Rat(1, 2)) =>
       \A n \in DOMAIN intrinsics : OffsetsSymmetric(n) /\ CentreForward(n)
  /\ (SymmetricSetup(Rat(1, 2)) /\ resolution = 2
        /\ intrinsics = Batch(<<IntrCentred>>)) => PencilOfFour

\* The 2x2 case with the principal point at 0.5.
C7_Witness ==
  /\ SymmetricSetup(Rat(1, 2)) /\ resolution = 2 /\ intrinsics = Batch(<<IntrCentred>>)
  /\ PencilOfFour /\ OffsetsSymmetric(0)

\* C8: projecting a lifted point at depth 1 through the skewed pinhole model
\* gives back the grid point: fx*x_lift + sk*y_lift + cx = x_cam and
\* fy*y_lift + cy = y_cam, for every camera with fx # 0 and fy # 0.
C8_RoundTrip ==
  (ReturnedOk /\ sampler = "RaySampler" /\ Matched) =>
    \A n \in DOMAIN intrinsics :
      (intrinsics[n][0][0] # Zero /\ intrinsics[n][1][1] # Zero) =>
        \A m \in Pixels :
          LET K == intrinsics[n]
              x == locals.x_lift[n][m]
              y == locals.y_lift[n][m]
          IN  /\ Add(Add(Mul(K[0][0], x), Mul(K[0][1], y)), K[0][2]) = locals.x_cam[n][m]
              /\ Add(Mul(K[1][1], y), K[1][2]) = locals.y_cam[n][m]

\* A skewed camera and a pixel off the principal row, where the cross term acts.
C8_Witness ==
  /\ ReturnedOk /\ sampler = "RaySampler" /\ resolution = 2
  /\ intrinsics = Batch(<<IntrSkewed>>) /\ cam2world_matrix = Batch(<<CamRotated>>)
  /\ locals.y_lift[0][2] = Rat(1, 6)
  /\ locals.x_lift[0][2] = Rat(-5, 24)

\* C9: flat index m is the pixel of column m mod R and row m div R: in
\* RaySampler x_cam[m] = ((m mod R) + 0.5)/R and y_cam[m] = ((m div R) + 0.5)/R,
\* in [0, 1) and the same for all cameras; in AvatarGenRaySampler
\* i[m] = (m mod R) + 0.5 and j[m] = (m div R) + 0.5.
C9_RowMajor ==
  /\ (ReturnedOk /\ sampler = "RaySampler") =>
       \A n \in DOMAIN locals.x_cam : \A m \in Pixels :
         /\ locals.x_cam[n][m] = Rat(2 * (m % resolution) + 1, 2 * resolution)
         /\ locals.y_cam[n][m] = Rat(2 * (m \div resolution) + 1, 2 * resolution)
         /\ LessEq(Zero, locals.x_cam[n][m]) /\ Less(locals.x_cam[n][m], One)
         /\ LessEq(Zero, locals.y_cam[n][m]) /\ Less(locals.y_cam[n][m], One)
         /\ locals.x_cam[n][m] = locals.x_cam[0][m]
         /\ locals.y_cam[n][m] = locals.y_cam[0][m]
  /\ (ReturnedOk /\ sampler = "AvatarGenRaySampler") =>
       \A m \in Pixels :
         /\ locals.i[m] = Rat(2 * (m % resolution) + 1, 2)
         /\ locals.j[m] = Rat(2 * (m \div resolution) + 1, 2)

\* Flat index 1 at resolution 2 is column 1 of row 0.
C9_Witness ==
  /\ ReturnedOk /\ sampler = "RaySampler" /\ resolution = 2 /\ Shape0(cam2world_matrix) = 2
  /\ locals.x_cam[1][1] = Rat(3, 4) /\ locals.y_cam[1][1] = Rat(1, 4)

\* What the other sampler returns for the same arguments.
OtherResult ==
  PureResult(IF sampler = "RaySampler" THEN "AvatarGenRaySampler" ELSE "RaySampler",
             cam2world_matrix, intrinsics, resolution)

\* C10: for the same arguments with zero skew and non-zero fx, fy (so not
\* all zero), the two samplers return the same origins and the same world
\* directions before normalisation.
C10_SamplersAgree ==
  (ReturnedOk /\ Matched /\ FocalNonZero
     /\ \A n \in DOMAIN intrinsics : intrinsics[n][0][1] = Zero) =>
    /\ OtherResult.status = "ok"
    /\ OtherResult.ray_origins = ret.ray_origins
    /\ \A n \in DOMAIN ret.ray_dirs : \A m \in Pixels :
         OtherResult.ray_dirs[n][m].vec = ret.ray_dirs[n][m].vec

\* A call of AvatarGenRaySampler on a rotated and translated camera with a
\* direction that has non-zero X and Y.
C10_Witness ==
  /\ ReturnedOk /\ sampler = "AvatarGenRaySampler" /\ resolution = 2
  /\ cam2world_matrix = Batch(<<CamRotated>>) /\ intrinsics = Batch(<<IntrCentred>>)
  /\ OtherResult.ray_dirs[0][3].vec = ret.ray_dirs[0][3].vec
  /\ ret.ray_dirs[0][3].vec = Vec3(Rat(-1, 40), Rat(7, 40), One)

====
